---- MODULE Spec2Model ----
(***************************************************************************)
(* Fairum: translation of optimized MIR into a Petri net (PNML document). *)
(* The model follows src/src/translator.rs: the CallStack, the Translator *)
(* driver (petrify / translate) and the MIR visitor callbacks.  The       *)
(* per-function subnet (crate::petri_net::function::Function) lives       *)
(* outside translator.rs and is modelled from section 4.2 of the          *)
(* specification.                                                          *)
(***************************************************************************)
EXTENDS Integers, Sequences, FiniteSets, TLC

\* Longest statement list of a generated basic block.
MaxStmts == 2
\* Number of nested translate() activations the native stack can hold.
MaxDepth == 4

(***************************************************************************)
(* MIR surface consumed by the translator.                                 *)
(***************************************************************************)
IntTy == [sty |-> "Int", def |-> "none"]
FnPtrTy == [sty |-> "FnPtr", def |-> "none"]
FnDefTy(d) == [sty |-> "FnDef", def |-> d]

LocalPlace(l) == [base |-> "Local", local |-> l]
StaticPlace == [base |-> "Static", local |-> 0]

Move(p) == [op |-> "Move", place |-> p, ty |-> IntTy]
Copy(p) == [op |-> "Copy", place |-> p, ty |-> IntTy]
Constant(t) == [op |-> "Constant", place |-> LocalPlace(0), ty |-> t]

NoDestination == <<>>
SomeDestination(p, b) == <<p, b>>

Terminator(k, t) ==
    [kind |-> k, target |-> t, func |-> Constant(IntTy), args |-> <<>>,
     destination |-> NoDestination, cond |-> Constant(IntTy),
     targets |-> <<>>, location |-> LocalPlace(0)]
Call(f, a, d) ==
    [Terminator("Call", 0) EXCEPT !.func = f, !.args = a, !.destination = d]
AssertTerm(c, t) == [Terminator("Assert", t) EXCEPT !.cond = c]
\* SwitchInt { discr, targets }: targets lists one block per value, then the
\* otherwise block.
SwitchInt(discr, ts) == [Terminator("SwitchInt", 0) EXCEPT !.cond = discr, !.targets = ts]
\* Drop { location, target }
Drop(p, t) == [Terminator("Drop", t) EXCEPT !.location = p]

BasicBlockData(s, t) == [statements |-> s, terminator |-> t]
\* local_decls[l + 1] is the declared type of local _l; basic_blocks[b] is bb(b-1).
Body(decls, blocks) == [local_decls |-> decls, basic_blocks |-> blocks]

\* tcx queries
MirDefs == {"main", "f", "g"}
is_foreign_item(d) == d = "extern_fn"
is_mir_available(d) == d \in MirDefs
panic_fn == "panic_fn"
describe_as_module(d) ==
    CASE d = "begin_panic_fmt" -> <<"std", "rt", "begin_panic_fmt">>
      [] d = "panicking" -> <<"std", "panicking", "panicking">>
      [] d = "panic_fn" -> <<"core", "panicking", "panic">>
      [] d = "extern_fn" -> <<"libc", "abort">>
      [] d = "no_mir" -> <<"core", "intrinsics", "transmute">>
      [] OTHER -> <<"crate", d>>

\* str::contains on module paths: sub occurs as a contiguous run of segments.
Contains(s, sub) ==
    \E i \in 0..(Len(s) - Len(sub)) :
        \A j \in 1..Len(sub) : s[i + j] = sub[j]

skip_function(def_id) ==
    IF def_id = panic_fn THEN TRUE
    ELSE IF Contains(describe_as_module(def_id), <<"std", "rt", "begin_panic_fmt">>) THEN TRUE
    ELSE IF Contains(describe_as_module(def_id), <<"std", "panicking", "panicking">>) THEN TRUE
    ELSE FALSE

(***************************************************************************)
(* PNML document: one net; places and transitions are numbered in the     *)
(* order the net builder creates them.                                     *)
(***************************************************************************)
\* Translator::new: the document holds one net with the root page "entry".
\* A page records its name and, for the page of a function subnet, the start
\* place of the instance it holds (0 for the root page).
PageNode(name, start) == [name |-> name, start |-> start]
NewDocument ==
    [pages |-> <<PageNode(<<"entry">>, 0)>>, places |-> <<>>, transitions |-> <<>>,
     arcs |-> {}]
RootPage(net) == 1
add_page(net, name, start) == [net EXCEPT !.pages = Append(@, PageNode(name, start))]
LastPage(net) == Len(net.pages)

PlaceNode(owner, role) == [owner |-> owner, role |-> role, initial |-> 0]
TransitionNode(owner, role) == [owner |-> owner, role |-> role]
PT(p, t) == <<"pt", p, t>>
TP(t, p) == <<"tp", t, p>>

add_place(net, owner, role) ==
    [net EXCEPT !.places = Append(@, PlaceNode(owner, role))]
add_transition(net, owner, role) ==
    [net EXCEPT !.transitions = Append(@, TransitionNode(owner, role))]
add_arc(net, a) == [net EXCEPT !.arcs = @ \cup {a}]
initial_marking(net, p, k) == [net EXCEPT !.places[p].initial = k]
LastPlace(net) == Len(net.places)
LastTransition(net) == Len(net.transitions)

RECURSIVE add_places(_, _, _, _)
add_places(net, owner, role, n) ==
    IF n = 0 THEN net ELSE add_places(add_place(net, owner, role), owner, role, n - 1)

(***************************************************************************)
(* std::collections::HashMap: the entries, and the hasher keys drawn by    *)
(* HashMap::new() on which the iteration order depends.                    *)
(***************************************************************************)
HashSeeds == {0, 1}
HashMapNew(seed) == [entries |-> <<>>, seed |-> seed]
insert(map, k, v) == [map EXCEPT !.entries = (k :> v) @@ @]
RECURSIVE Ascending(_)
Ascending(S) ==
    IF S = {} THEN <<>>
    ELSE LET m == CHOOSE x \in S : \A y \in S : x <= y
         IN  <<m>> \o Ascending(S \ {m})
Reverse(s) == [i \in 1..Len(s) |-> s[Len(s) + 1 - i]]
\* Keys in iteration order.
iter(map) ==
    IF map.seed = 0 THEN Ascending(DOMAIN map.entries)
    ELSE Reverse(Ascending(DOMAIN map.entries))

(***************************************************************************)
(* Function subnet (petri_net::function::Function), section 4.2.           *)
(***************************************************************************)
NoPlace == [none |-> TRUE]

\* Local::new: a fresh (live, dead) pair, both unmarked.
NewLocal(net, owner) ==
    LET n1 == add_place(net, owner, "live")
        n2 == add_place(n1, owner, "dead")
    IN  [net |-> n2, pair |-> <<LastPlace(n1), LastPlace(n2)>>]

\* Binding by position in the iteration order of the map.
bind_args_by_position(locals, map, keys) ==
    [k \in 1..Len(keys) |-> map.entries[keys[k]]] @@ locals

\* The argument bindings, taken from the map in its iteration order: a bound
\* local reuses the caller's pair under the key it was handed in with.
RECURSIVE bind_args(_, _, _)
bind_args(locals, map, keys) ==
    IF keys = <<>> THEN locals
    ELSE bind_args(IF Head(keys) \in DOMAIN locals THEN locals
                   ELSE (Head(keys) :> map.entries[Head(keys)]) @@ locals,
                   map, Tail(keys))

\* Function::new: the bindings handed in are kept as they are keyed, the entry
\* block is bound to start_place, every other block gets a fresh entry place.
\* No return place is handed to the constructor.
FunctionNew(function, body, net, args, destination, start_place, fn_name) ==
    LET nb == Len(body.basic_blocks)
        n0 == add_page(net, fn_name, start_place)
        inst == LastPage(n0)
        n1 == add_places(n0, inst, "block", nb - 1)
        bound == bind_args(IF destination = <<>> THEN <<>>
                           ELSE (destination[1] :> destination[2]),
                           args, iter(args))
    IN  [net |-> n1,
         fn |-> [mir_id |-> function,
                 mir_body |-> body,
                 inst |-> inst,
                 locals |-> bound,
                 caller_bound |-> DOMAIN bound,
                 basic_blocks |-> [b \in 1..nb |->
                                     IF b = 1 THEN start_place
                                     ELSE LastPlace(net) + b - 1],
                 active_block |-> 1,
                 cursor |-> start_place,
                 start_place |-> start_place,
                 return_place |-> NoPlace]]

get_local_ok(fn, l) == l \in DOMAIN fn.locals
get_local(fn, l) == fn.locals[l]

\* add_locals: a fresh pair for every declared local that is not bound yet.
RECURSIVE add_locals_from(_, _, _, _)
add_locals_from(net, fn, l, n) ==
    IF l >= n THEN [net |-> net, fn |-> fn]
    ELSE IF l \in DOMAIN fn.locals THEN add_locals_from(net, fn, l + 1, n)
    ELSE LET r == NewLocal(net, fn.inst)
         IN  add_locals_from(r.net, [fn EXCEPT !.locals = (l :> r.pair) @@ @], l + 1, n)

add_locals(net, fn, decls) == add_locals_from(net, fn, 0, Len(decls))

activate_block_ok(fn, b) == b \in DOMAIN fn.basic_blocks
activate_block(fn, b) ==
    [fn EXCEPT !.active_block = b, !.cursor = fn.basic_blocks[b]]

add_statement(net, fn) ==
    LET n1 == add_transition(net, fn.inst, "statement")
        t == LastTransition(n1)
        n2 == add_place(n1, fn.inst, "chain")
        q == LastPlace(n2)
    IN  [net |-> add_arc(add_arc(n2, PT(fn.cursor, t)), TP(t, q)),
         fn |-> [fn EXCEPT !.cursor = q]]

goto_ok(fn, b) == b \in DOMAIN fn.basic_blocks
goto(net, fn, b) ==
    LET n1 == add_transition(net, fn.inst, "goto")
        t == LastTransition(n1)
    IN  add_arc(add_arc(n1, PT(fn.cursor, t)), TP(t, fn.basic_blocks[b]))

\* Locals whose storage the return transition releases: the instance's own
\* locals except the return local _0.
ReleasedLocals(fn) == (DOMAIN fn.locals \ fn.caller_bound) \ {0}

retorn(net, fn) ==
    LET n1 == add_transition(net, fn.inst, "return")
        t == LastTransition(n1)
        control == {PT(fn.cursor, t)} \cup
                   (IF fn.return_place = NoPlace THEN {} ELSE {TP(t, fn.return_place)})
        release == UNION {{PT(fn.locals[l][1], t), TP(t, fn.locals[l][2])} :
                          l \in ReleasedLocals(fn)}
    IN  [n1 EXCEPT !.arcs = @ \cup control \cup release]

function_call_start_place(fn) == fn.cursor

(***************************************************************************)
(* CallStack<T>                                                            *)
(***************************************************************************)
CallStackNew == <<>>
\* Option<T>
None == [none |-> TRUE]
Some(x) == [some |-> x]
expect(option) == option.some

push(stack, x) == Append(stack, x)
\* A pop that leaves the frame on the stack.
pop_keeps_frame(stack) == [stack |-> stack, item |-> None]
\* Vec::pop: the stack that is left and the item handed back.
pop(stack) ==
    IF stack = <<>> THEN [stack |-> stack, item |-> None]
    ELSE [stack |-> SubSeq(stack, 1, Len(stack) - 1), item |-> Some(stack[Len(stack)])]
\* A peek that hands back the oldest item.
peek_bottom(stack) == IF stack = <<>> THEN None ELSE Some(stack[1])
peek(stack) == IF stack = <<>> THEN None ELSE Some(stack[Len(stack)])
peek_mut(stack) == IF stack = <<>> THEN None ELSE Some(stack[Len(stack)])
\* function!(self): peek_mut().expect("empty call stack")
top_frame(stack) == expect(peek_mut(stack))
\* CallStack::is_empty calls itself on the same receiver without any base
\* case: the call never returns (the native stack is exhausted).
is_empty(stack) == [terminates |-> FALSE, value |-> stack = <<>>]

\* op_to_local / place_to_local panic on constants and statics.
place_to_local_panics(place) == place.base = "Static"
place_to_local(place) == place.local
\* op_to_local that lets a Constant operand through.
op_to_local_constant_passes(operand) == place_to_local_panics(operand.place)
op_to_local_panics(operand) ==
    operand.op = "Constant" \/ place_to_local_panics(operand.place)
op_to_local(operand) == place_to_local(operand.place)

(***************************************************************************)
(* Translator state.                                                       *)
(***************************************************************************)
VARIABLES
    prog,        \* tcx: DefId -> optimized MIR body
    pnml_doc,    \* Translator.pnml_doc
    call_stack,  \* Translator.call_stack (top = last element)
    walk,        \* position of the visitor in the body of each frame
    status,      \* "new", "running", "done", "error", "panicked", "overflow"
    failed,      \* some translate() call has returned Err
    stdout,      \* documents printed by petrify
    marking,     \* current marking of the emitted net
    entered,     \* function pages whose start place has held the control token
    returned,    \* function pages whose return transition has fired since
    item         \* value handed back by the last CallStack operation

vars ==
    <<prog, pnml_doc, call_stack, walk, status, failed, stdout, marking, entered, returned,
      item>>

Position(phase, block, stmt) == [phase |-> phase, block |-> block, stmt |-> stmt]

\* First argument (in order) that stops the argument loop of translate():
\* 0 when every argument is a local the caller frame knows.
RECURSIVE FirstBadArg(_, _, _)
FirstBadArg(stack, args, i) ==
    IF i > Len(args) THEN 0
    ELSE IF op_to_local_panics(args[i]) THEN i
    ELSE IF stack = <<>> THEN i
    ELSE IF ~get_local_ok(top_frame(stack), op_to_local(args[i])) THEN i
    ELSE FirstBadArg(stack, args, i + 1)

\* The argument map of translate(): one insert per argument, in argument
\* order, keyed by the caller's local.
RECURSIVE ArgsMapFrom(_, _, _, _)
ArgsMapFrom(stack, args, i, map) ==
    IF i > Len(args) THEN map
    ELSE ArgsMapFrom(stack, args, i + 1,
                     insert(map, op_to_local(args[i]),
                            get_local(top_frame(stack), op_to_local(args[i]))))
ArgsMap(stack, args, seed) == ArgsMapFrom(stack, args, 1, HashMapNew(seed))

\* translate() up to and including call_stack.push: outcome "Pushed" (with the
\* new frame), "Err" (returned by ?), "Panic" or "Overflow" (never returns).
Translate(net, stack, function, start_place, args, destination, new_ok, seed) ==
    LET fn_name == describe_as_module(function)
        body == prog[function]
        bad == FirstBadArg(stack, args, 1)
        stop(o) == [outcome |-> o, net |-> net, stack |-> stack]
    IN
    IF bad # 0 /\ (op_to_local_panics(args[bad]) \/ stack = <<>>) THEN stop("Panic")
    ELSE IF bad # 0 THEN stop("Err")
    ELSE
    LET map == IF args = <<>> THEN HashMapNew(seed) ELSE ArgsMap(stack, args, seed) IN
    IF destination # NoDestination /\ place_to_local_panics(destination[1]) THEN stop("Panic")
    ELSE IF destination # NoDestination /\ ~is_empty(stack).terminates THEN stop("Overflow")
    ELSE IF destination # NoDestination /\ ~is_empty(stack).value
            /\ ~get_local_ok(top_frame(stack), place_to_local(destination[1])) THEN stop("Err")
    ELSE
    LET local == place_to_local(destination[1])
        n1 == IF destination # NoDestination /\ is_empty(stack).value
              THEN add_place(net, RootPage(net), "unused") ELSE net
        fresh == NewLocal(n1, RootPage(net))
        n2 == IF destination # NoDestination /\ is_empty(stack).value
              THEN fresh.net ELSE net
        dest == IF destination = NoDestination THEN <<>>
                ELSE IF is_empty(stack).value THEN <<local, fresh.pair>>
                ELSE <<local, get_local(top_frame(stack), local)>>
        made == FunctionNew(function, body, n2, map, dest, start_place, fn_name)
    IN  IF Len(stack) >= MaxDepth THEN stop("Overflow")
        ELSE IF ~new_ok THEN [outcome |-> "Err", net |-> n2, stack |-> stack]
        ELSE [outcome |-> "Pushed", net |-> made.net, stack |-> push(stack, made.fn)]

(***************************************************************************)
(* The programs handed to the translator: an entry procedure main and two *)
(* procedures f and g with MIR, next to the panic entry points, a foreign *)
(* item and an item without MIR.                                           *)
(***************************************************************************)
StmtKinds == {"Nop", "StorageLive", "Assign"}
StmtSeqs == UNION {[1..k -> StmtKinds] : k \in 0..MaxStmts}

ReturnBlock == BasicBlockData(<<>>, Terminator("Return", 0))
FnOperand(d) == Constant(FnDefTy(d))

MainDecls == {<<IntTy>>, <<IntTy, IntTy, IntTy, FnDefTy("f"), FnPtrTy>>}
Callees == {"f", "g", "main", "panic_fn", "begin_panic_fmt", "extern_fn", "no_mir"}
ArgLists ==
    {<<>>, <<Move(LocalPlace(1))>>, <<Move(LocalPlace(2))>>, <<Constant(IntTy)>>,
     <<Copy(StaticPlace)>>, <<Move(LocalPlace(2)), Move(LocalPlace(1))>>,
     <<Move(LocalPlace(1)), Constant(IntTy)>>}
Destinations ==
    {NoDestination, SomeDestination(LocalPlace(1), 2), SomeDestination(StaticPlace, 2)}

MainCalls ==
    {Call(FnOperand(d), a, dst) : d \in Callees, a \in ArgLists, dst \in Destinations}
    \cup {Call(Move(LocalPlace(3)), <<>>, NoDestination),
          Call(Move(LocalPlace(4)), <<>>, NoDestination),
          Call(Constant(FnPtrTy), <<>>, NoDestination),
          Call(Constant(IntTy), <<>>, NoDestination)}
MainPlainTerms ==
    {Terminator("Return", 0), Terminator("Goto", 1), Terminator("Goto", 2),
     Terminator("Goto", 3), SwitchInt(Constant(IntTy), <<2, 1>>),
     SwitchInt(Move(LocalPlace(1)), <<2, 2>>), Drop(LocalPlace(1), 2),
     AssertTerm(Constant(IntTy), 2), AssertTerm(Move(LocalPlace(1)), 2),
     Terminator("Yield", 2), Terminator("GeneratorDrop", 0),
     Terminator("DropAndReplace", 2), Terminator("Resume", 0), Terminator("Abort", 0),
     Terminator("FalseEdges", 2), Terminator("FalseUnwind", 2),
     Terminator("Unreachable", 0)}

MainBodies ==
    {Body(d, bs) :
        d \in MainDecls,
        bs \in UNION {{<<BasicBlockData(st, t)>>, <<BasicBlockData(st, t), ReturnBlock>>} :
                        st \in {<<>>, <<"Nop">>}, t \in MainCalls \cup MainPlainTerms}}
    \cup
    {Body(d, bs) :
        d \in MainDecls,
        bs \in UNION {{<<BasicBlockData(st, t)>>, <<BasicBlockData(st, t), ReturnBlock>>} :
                        st \in StmtSeqs,
                        t \in {Terminator("Return", 0), Terminator("Goto", 1),
                               Terminator("Goto", 2)}}}

CalleeDecls == {<<IntTy>>, <<IntTy, IntTy, IntTy>>}
FBlocks ==
    {<<ReturnBlock>>,
     <<ReturnBlock, ReturnBlock>>,
     <<BasicBlockData(<<"Nop">>, Terminator("Goto", 1))>>,
     <<BasicBlockData(<<>>, Terminator("Abort", 0))>>,
     <<BasicBlockData(<<>>, Call(FnOperand("g"), <<>>, NoDestination))>>,
     <<BasicBlockData(<<>>, Call(FnOperand("f"), <<>>, NoDestination))>>,
     <<BasicBlockData(<<>>, Call(FnOperand("g"), <<Move(LocalPlace(1))>>, NoDestination))>>,
     <<BasicBlockData(<<>>, Call(FnOperand("g"), <<Constant(IntTy)>>, NoDestination))>>,
     <<BasicBlockData(<<>>, Call(FnOperand("panic_fn"), <<Constant(IntTy)>>, NoDestination)),
       ReturnBlock>>,
     <<BasicBlockData(<<"Nop">>,
                      Call(FnOperand("g"), <<>>, SomeDestination(LocalPlace(0), 2))),
       ReturnBlock>>}
GBlocks ==
    {<<ReturnBlock>>,
     <<BasicBlockData(<<"Nop">>, Terminator("Goto", 1))>>,
     <<BasicBlockData(<<>>, Call(FnOperand("f"), <<>>, NoDestination))>>}

FBodies == {Body(d, bs) : d \in CalleeDecls, bs \in FBlocks}
GBodies == {Body(<<IntTy, IntTy>>, bs) : bs \in GBlocks}

\* Whether the translation of the entry body can get as far as the body of f
\* or g (the bodies of f and g are varied only then).
CallsCallee(m) ==
    \E b \in 1..Len(m.basic_blocks) :
        LET t == m.basic_blocks[b].terminator
        IN  /\ t.kind = "Call"
            /\ t.destination = NoDestination
            /\ \A i \in 1..Len(t.args) : ~op_to_local_panics(t.args[i])
            /\ \/ t.func.op # "Constant"
               \/ (t.func.ty.sty = "FnDef" /\ t.func.ty.def \in {"f", "g"})

Programs ==
    UNION {{[d \in MirDefs |-> CASE d = "main" -> m [] d = "f" -> fb [] OTHER -> gb] :
                fb \in (IF CallsCallee(m) THEN FBodies ELSE {Body(<<IntTy>>, <<ReturnBlock>>)}),
                gb \in (IF CallsCallee(m) THEN GBodies
                        ELSE {Body(<<IntTy, IntTy>>, <<ReturnBlock>>)})} :
           m \in MainBodies}

Init ==
    /\ prog \in Programs
    /\ pnml_doc = NewDocument
    /\ call_stack = CallStackNew
    /\ walk = <<>>
    /\ status = "new"
    /\ failed = FALSE
    /\ stdout = <<>>
    /\ marking = <<>>
    /\ entered = {}
    /\ returned = {}
    /\ item = [op |-> "new", value |-> None]

\* The start place without its initial token.
petrify_start_place_unmarked(net) == add_place(net, RootPage(net), "start")

\* petrify: the start place, created on the root page with one initial token.
petrify_start_place(net) ==
    LET n1 == add_place(net, RootPage(net), "start")
    IN  initial_marking(n1, LastPlace(n1), 1)

\* petrify up to the push inside translate(main_fn, start_place, [], None).
Petrify ==
    /\ status = "new"
    /\ \E new_ok \in BOOLEAN, seed \in HashSeeds :
        LET n2 == petrify_start_place(pnml_doc)
            start_place == LastPlace(n2)
            r == Translate(n2, call_stack, "main", start_place, <<>>, NoDestination,
                           new_ok, seed)
        IN  /\ pnml_doc' = r.net
            /\ call_stack' = r.stack
            /\ walk' = IF r.outcome = "Pushed" THEN <<Position("body", 0, 0)>> ELSE walk
            /\ status' = CASE r.outcome = "Pushed" -> "running"
                            [] r.outcome = "Err" -> "error"
                            [] r.outcome = "Panic" -> "panicked"
                            [] OTHER -> "overflow"
            /\ failed' = (r.outcome = "Err")
    /\ UNCHANGED <<prog, stdout, marking, entered, returned>>
    /\ UNCHANGED item

Top == Len(call_stack)
Running(phase) == status = "running" /\ walk # <<>> /\ walk[Top].phase = phase
CurrentBody == call_stack[Top].mir_body
SetTop(seq, v) == [seq EXCEPT ![Len(seq)] = v]

\* visit_body: add_locals, then super_body starts the walk over the blocks.
VisitBody ==
    /\ Running("body")
    /\ LET r == add_locals(pnml_doc, top_frame(call_stack), CurrentBody.local_decls)
       IN  /\ pnml_doc' = r.net
           /\ call_stack' = SetTop(call_stack, r.fn)
    /\ walk' = SetTop(walk, IF CurrentBody.basic_blocks = <<>>
                            THEN Position("end", 0, 0) ELSE Position("block", 1, 0))
    /\ UNCHANGED <<prog, status, failed, stdout, marking, entered, returned>>
    /\ UNCHANGED item

\* visit_basic_block_data: activate_block, then the statements, then the terminator.
VisitBasicBlockData ==
    /\ Running("block")
    /\ LET b == walk[Top].block
           data == CurrentBody.basic_blocks[b]
       IN  IF ~activate_block_ok(top_frame(call_stack), b)
           THEN status' = "panicked" /\ UNCHANGED <<call_stack, walk>>
           ELSE /\ call_stack' = SetTop(call_stack, activate_block(top_frame(call_stack), b))
                /\ walk' = SetTop(walk, IF data.statements = <<>>
                                        THEN Position("term", b, 0)
                                        ELSE Position("stmt", b, 1))
                /\ UNCHANGED status
    /\ UNCHANGED <<prog, pnml_doc, failed, stdout, marking, entered, returned>>
    /\ UNCHANGED item

\* super_statement reaches visit_assign, visit_place, visit_retag or
\* visit_ascribe_user_ty for these kinds, each of which panics.
super_statement_panics(kind) ==
    kind \in {"Assign", "FakeRead", "SetDiscriminant", "Retag", "AscribeUserType"}

\* visit_statement: add_statement, then super_statement.
VisitStatement ==
    /\ Running("stmt")
    /\ LET b == walk[Top].block
           i == walk[Top].stmt
           data == CurrentBody.basic_blocks[b]
           r == add_statement(pnml_doc, top_frame(call_stack))
       IN  /\ pnml_doc' = r.net
           /\ call_stack' = SetTop(call_stack, r.fn)
           /\ IF super_statement_panics(data.statements[i])
              THEN status' = "panicked" /\ UNCHANGED walk
              ELSE /\ walk' = SetTop(walk, IF i < Len(data.statements)
                                           THEN Position("stmt", b, i + 1)
                                           ELSE Position("term", b, 0))
                   /\ UNCHANGED status
    /\ UNCHANGED <<prog, failed, stdout, marking, entered, returned>>
    /\ UNCHANGED item

\* Type of the callee operand (visit_terminator_kind, `let sty = ...`); statics
\* of the generated programs are integers.
func_ty_panics(fn, func) ==
    /\ func.op # "Constant"
    /\ func.place.base = "Local"
    /\ func.place.local + 1 > Len(fn.mir_body.local_decls)
func_ty(fn, func) ==
    IF func.op = "Constant" THEN func.ty
    ELSE IF func.place.base = "Static" THEN IntTy
    ELSE fn.mir_body.local_decls[func.place.local + 1]

\* The start place read off the entry block of the calling frame.
call_start_place_of_entry(stack) == top_frame(stack).basic_blocks[1]
\* function!(self).function_call_start_place(): read from the top frame, which
\* is the caller's, before translate() is entered.
call_start_place(stack) == function_call_start_place(top_frame(stack))

\* The Call arm of visit_terminator_kind.
CallArm(net, stack, term, new_ok, seed) ==
    LET fn == top_frame(stack)
        sty == func_ty(fn, term.func)
        function == sty.def
        same(o) == [outcome |-> o, net |-> net, stack |-> stack, err |-> FALSE]
    IN
    IF func_ty_panics(fn, term.func) THEN same("Panic")
    ELSE IF sty.sty # "FnDef" THEN same("Panic")
    ELSE IF is_foreign_item(function) THEN same("Done")
    ELSE IF skip_function(function) THEN same("Done")
    ELSE IF ~is_mir_available(function) THEN same("Done")
    ELSE
    LET start_place == call_start_place(stack)
        r == Translate(net, stack, function, start_place, term.args, term.destination,
                       new_ok, seed)
    IN  CASE r.outcome = "Pushed" ->
                [outcome |-> "Pushed", net |-> r.net, stack |-> r.stack, err |-> FALSE]
          [] r.outcome = "Err" ->
                [outcome |-> "Done", net |-> r.net, stack |-> r.stack, err |-> TRUE]
          [] OTHER -> same(r.outcome)

\* The match of visit_terminator_kind.
MatchTerminatorKind(net, stack, term, new_ok, seed) ==
    LET fn == top_frame(stack)
        same(o) == [outcome |-> o, net |-> net, stack |-> stack, err |-> FALSE]
    IN  CASE term.kind = "Return" ->
                [outcome |-> "Done", net |-> retorn(net, fn), stack |-> stack, err |-> FALSE]
          [] term.kind = "Goto" ->
                IF goto_ok(fn, term.target)
                THEN [outcome |-> "Done", net |-> goto(net, fn, term.target),
                      stack |-> stack, err |-> FALSE]
                ELSE same("Panic")
          [] term.kind = "Call" -> CallArm(net, stack, term, new_ok, seed)
          [] term.kind \in {"SwitchInt", "Drop", "FalseEdges", "FalseUnwind"} -> same("Panic")
          [] OTHER -> same("Done")

\* super_terminator_kind visits the operands and places of the terminator;
\* visit_place panics, so any Copy/Move operand or place ends the run.
super_terminator_kind_panics(term) ==
    CASE term.kind = "Call" ->
            \/ term.func.op # "Constant"
            \/ \E i \in 1..Len(term.args) : term.args[i].op # "Constant"
            \/ term.destination # NoDestination
      [] term.kind \in {"Assert", "Yield", "SwitchInt"} -> term.cond.op # "Constant"
      [] term.kind \in {"Drop", "DropAndReplace"} -> TRUE
      [] OTHER -> FALSE

\* Position of the walk once the terminator of block b has been visited.
AfterTerminator(body, b) ==
    IF b < Len(body.basic_blocks) THEN Position("block", b + 1, 0)
    ELSE Position("end", 0, 0)

\* visit_terminator_kind, up to its end or up to the push of a callee frame.
VisitTerminatorKind ==
    /\ Running("term")
    /\ \E new_ok \in BOOLEAN, seed \in HashSeeds :
        LET b == walk[Top].block
            term == CurrentBody.basic_blocks[b].terminator
            r == MatchTerminatorKind(pnml_doc, call_stack, term, new_ok, seed)
        IN  /\ pnml_doc' = r.net
            /\ call_stack' = r.stack
            /\ failed' = (failed \/ r.err)
            /\ CASE r.outcome = "Pushed" ->
                       /\ walk' = Append(SetTop(walk, Position("call", b, 0)),
                                         Position("body", 0, 0))
                       /\ UNCHANGED status
                 [] r.outcome = "Panic" -> status' = "panicked" /\ UNCHANGED walk
                 [] r.outcome = "Overflow" -> status' = "overflow" /\ UNCHANGED walk
                 [] OTHER ->
                       IF super_terminator_kind_panics(term)
                       THEN status' = "panicked" /\ UNCHANGED walk
                       ELSE /\ walk' = SetTop(walk, AfterTerminator(CurrentBody, b))
                            /\ UNCHANGED status
    /\ UNCHANGED <<prog, stdout, marking, entered, returned>>
    /\ UNCHANGED item

\* End of a callee's walk: translate pops and returns Ok, the caller drops the
\* result and finishes visit_terminator_kind with super_terminator_kind.
LeaveCallee ==
    /\ Running("end")
    /\ Top > 1
    /\ LET stack == pop(call_stack).stack
           b == walk[Top - 1].block
           body == stack[Len(stack)].mir_body
           term == body.basic_blocks[b].terminator
       IN  /\ call_stack' = stack
           /\ IF super_terminator_kind_panics(term)
              THEN /\ status' = "panicked"
                   /\ walk' = SubSeq(walk, 1, Top - 1)
              ELSE /\ walk' = SetTop(SubSeq(walk, 1, Top - 1), AfterTerminator(body, b))
                   /\ UNCHANGED status
    /\ UNCHANGED <<prog, pnml_doc, failed, stdout, marking, entered, returned>>
    /\ UNCHANGED item

InitialMarking(net) == [p \in 1..Len(net.places) |-> net.places[p].initial]

\* Function pages whose start place is marked in m.
Entering(net, m) ==
    {i \in 1..Len(net.pages) : net.pages[i].start # 0 /\ m[net.pages[i].start] >= 1}

\* End of the entry body's walk: translate pops and returns Ok to petrify,
\* which prints the document.
LeaveRoot ==
    /\ Running("end")
    /\ Top = 1
    /\ call_stack' = pop(call_stack).stack
    /\ walk' = <<>>
    /\ stdout' = Append(stdout, pnml_doc)
    /\ marking' = InitialMarking(pnml_doc)
    /\ entered' = Entering(pnml_doc, InitialMarking(pnml_doc))
    /\ status' = "done"
    /\ UNCHANGED <<prog, pnml_doc, failed, returned>>
    /\ UNCHANGED item

\* Place/transition semantics of the emitted net (section 5).
Enabled(net, m, t) == \A a \in net.arcs : (a[1] = "pt" /\ a[3] = t) => m[a[2]] >= 1
FireMarking(net, m, t) ==
    [p \in DOMAIN m |-> m[p] - (IF PT(p, t) \in net.arcs THEN 1 ELSE 0)
                             + (IF TP(t, p) \in net.arcs THEN 1 ELSE 0)]

Fire ==
    /\ status = "done"
    /\ \E t \in 1..Len(pnml_doc.transitions) :
        /\ Enabled(pnml_doc, marking, t)
        /\ marking' = FireMarking(pnml_doc, marking, t)
        /\ entered' = entered \cup Entering(pnml_doc, FireMarking(pnml_doc, marking, t))
        /\ returned' = (IF pnml_doc.transitions[t].role = "return"
                        THEN returned \cup {pnml_doc.transitions[t].owner}
                        ELSE returned)
                       \ (Entering(pnml_doc, FireMarking(pnml_doc, marking, t))
                          \ Entering(pnml_doc, marking))
    /\ UNCHANGED <<prog, pnml_doc, call_stack, walk, status, failed, stdout>>
    /\ UNCHANGED item

Next ==
    \/ Petrify
    \/ VisitBody
    \/ VisitBasicBlockData
    \/ VisitStatement
    \/ VisitTerminatorKind
    \/ LeaveCallee
    \/ LeaveRoot
    \/ Fire

Spec == Init /\ [][Next]_vars

(***************************************************************************)
(* Properties.                                                             *)
(***************************************************************************)
\* The Call terminator the visitor is about to translate, and its caller frame.
AtCall == Running("term") /\ CurrentBody.basic_blocks[walk[Top].block].terminator.kind = "Call"
CallTerm == CurrentBody.basic_blocks[walk[Top].block].terminator
\* The callee of CallTerm is resolved to a procedure (no panic in the resolution).
CalleeResolved ==
    /\ ~func_ty_panics(top_frame(call_stack), CallTerm.func)
    /\ func_ty(top_frame(call_stack), CallTerm.func).sty = "FnDef"
Callee == func_ty(top_frame(call_stack), CallTerm.func).def
\* The call is one the translator descends into.
Inlinable ==
    /\ CalleeResolved
    /\ ~is_foreign_item(Callee) /\ ~skip_function(Callee) /\ is_mir_available(Callee)
NotInlined ==
    /\ CalleeResolved
    /\ (is_foreign_item(Callee) \/ skip_function(Callee) \/ ~is_mir_available(Callee))

\* C1: recursion is summarised, not inlined: the procedure identifiers of the
\* frames on the call stack are pairwise distinct at all times (a call whose
\* callee is already on the stack pushes no frame).
C1_StackIdsDistinct ==
    \A i, j \in 1..Len(call_stack) :
        i # j => call_stack[i].mir_id # call_stack[j].mir_id

\* C2: a failed translate() call, at any depth, ends the translation: the walk
\* does not go on and no document is ever printed.
C2_FailureAborts ==
    failed => (status \in {"error", "panicked", "overflow"} /\ stdout = <<>>)

\* C3: a call that is not inlined (skip policy, foreign item, no MIR) adds
\* exactly one transition, fed by the caller's cursor place and feeding the
\* entry place of the continuation block; it adds no place and pushes no frame.
C3_SkippedCallStep ==
    (AtCall /\ NotInlined) =>
        LET fn == top_frame(call_stack)
            t == Len(pnml_doc.transitions) + 1
        IN  /\ Len(pnml_doc'.transitions) = t
            /\ pnml_doc'.places = pnml_doc.places
            /\ Len(call_stack') = Len(call_stack)
            /\ PT(fn.cursor, t) \in pnml_doc'.arcs
            /\ CallTerm.destination # NoDestination =>
                   pnml_doc'.arcs = pnml_doc.arcs \cup
                       {PT(fn.cursor, t), TP(t, fn.basic_blocks[CallTerm.destination[2]])}
C3_SkippedCallOneTransition == [][C3_SkippedCallStep]_vars

\* The page of the entry procedure's function instance.
EntryPage(net) == RootPage(net) + 1
Role(net, p) == net.places[p].role
LivePlaces(net) == {p \in 1..Len(net.places) : Role(net, p) = "live"}
RECURSIVE Tokens(_, _)
Tokens(m, S) ==
    IF S = {} THEN 0
    ELSE LET p == CHOOSE q \in S : TRUE IN m[p] + Tokens(m, S \ {p})

ControlPlaces(net, i) ==
    {p \in 1..Len(net.places) : net.places[p].owner = i /\ Role(net, p) \in {"block", "chain"}}
    \cup {net.pages[i].start}
Max(S) == CHOOSE x \in S : \A y \in S : y <= x

\* C5: in every reachable marking of an emitted net the top-most frame that
\* has been entered and has not returned holds exactly one control token.
C5_UniqueControlToken ==
    (status = "done" /\ entered \ returned # {}) =>
        Tokens(marking, ControlPlaces(pnml_doc, Max(entered \ returned))) = 1

\* C6: exactly one place carries an initial token: the start place handed to
\* the entry procedure's instance, bound to its entry block, with one token;
\* every other place created during translation is unmarked.
C6_InitialMarking ==
    LET marked == {p \in 1..Len(pnml_doc.places) : pnml_doc.places[p].initial # 0}
    IN  status # "new" =>
            /\ Cardinality(marked) = 1
            /\ \A p \in marked :
                  /\ pnml_doc.places[p].initial = 1
                  /\ Len(pnml_doc.pages) >= EntryPage(pnml_doc)
                        => pnml_doc.pages[EntryPage(pnml_doc)].start = p
                  /\ call_stack # <<>> =>
                        (call_stack[1].start_place = p /\ call_stack[1].basic_blocks[1] = p)
            /\ status = "done" =>
                  (stdout = <<pnml_doc>> /\ Tokens(InitialMarking(stdout[1]), marked) = 1)
C6_Witness ==
    /\ status = "done"
    /\ Len(pnml_doc.pages) > EntryPage(pnml_doc)
    /\ \E p \in 1..Len(pnml_doc.places) : Role(pnml_doc, p) = "chain"
    /\ \E p \in 1..Len(pnml_doc.places) : Role(pnml_doc, p) = "block"

\* Well-formed call input: every argument is a Copy/Move of a local the caller
\* knows, the destination is a local the caller knows, the continuation exists.
CallWellFormed ==
    /\ FirstBadArg(call_stack, CallTerm.args, 1) = 0
    /\ CallTerm.destination # NoDestination =>
          /\ ~place_to_local_panics(CallTerm.destination[1])
          /\ get_local_ok(top_frame(call_stack), place_to_local(CallTerm.destination[1]))
          /\ CallTerm.destination[2] \in DOMAIN top_frame(call_stack).basic_blocks

\* C7: an inlined call with continuation block B' pushes a callee instance
\* whose return is wired to the caller's entry place p(B').
C7_ContinuationStep ==
    (AtCall /\ Inlinable /\ CallWellFormed /\ CallTerm.destination # NoDestination) =>
        /\ status' = "running"
        /\ Len(call_stack') = Len(call_stack) + 1
        /\ top_frame(call_stack').return_place =
               top_frame(call_stack).basic_blocks[CallTerm.destination[2]]
C7_CallSiteDeterminism == [][C7_ContinuationStep]_vars

ReturnTransitions(net, i) ==
    {t \in 1..Len(net.transitions) :
        net.transitions[t].owner = i /\ net.transitions[t].role = "return"}
ControlOutputs(net, t) ==
    {p \in 1..Len(net.places) : TP(t, p) \in net.arcs /\ Role(net, p) \notin {"live", "dead"}}

\* C8: in the emitted net every non-root instance has exactly one return
\* transition, with exactly one outgoing control arc (to its return place);
\* the return transitions of the root instance have no outgoing control arc.
C8_ReturnWiring ==
    status = "done" =>
        \A i \in EntryPage(pnml_doc)..Len(pnml_doc.pages) :
            IF i = EntryPage(pnml_doc)
            THEN \A t \in ReturnTransitions(pnml_doc, i) : ControlOutputs(pnml_doc, t) = {}
            ELSE /\ Cardinality(ReturnTransitions(pnml_doc, i)) = 1
                 /\ \A t \in ReturnTransitions(pnml_doc, i) :
                       Cardinality(ControlOutputs(pnml_doc, t)) = 1

\* C9: once a callee frame has its locals, its i-th parameter local is bound
\* to the caller's pair of the i-th argument, and no other local of the callee
\* (besides the return local) is bound to a pair of the caller.
C9_ArgumentBinding ==
    \A k \in 2..Len(call_stack) :
        walk[k].phase # "body" =>
            LET caller == call_stack[k - 1]
                callee == call_stack[k]
                term == caller.mir_body.basic_blocks[walk[k - 1].block].terminator
                n == Len(term.args)
                declared == 0..(Len(callee.mir_body.local_decls) - 1)
                CallerPairs == {caller.locals[l] : l \in DOMAIN caller.locals}
            IN  /\ \A i \in (1..n) \cap declared :
                      callee.locals[i] = caller.locals[op_to_local(term.args[i])]
                /\ \A l \in declared \ (0..n) : callee.locals[l] \notin CallerPairs

CalleeIsFnPtr ==
    /\ ~func_ty_panics(top_frame(call_stack), CallTerm.func)
    /\ func_ty(top_frame(call_stack), CallTerm.func).sty = "FnPtr"
HasConstantArg == \E i \in 1..Len(CallTerm.args) : CallTerm.args[i].op = "Constant"
HasStaticPlace ==
    \/ \E i \in 1..Len(CallTerm.args) :
          CallTerm.args[i].op # "Constant" /\ CallTerm.args[i].place.base = "Static"
    \/ (CallTerm.destination # NoDestination /\ CallTerm.destination[1].base = "Static")
Aborts == status' = "panicked" /\ call_stack' = call_stack /\ stdout' = <<>>

\* C10 as stated: a function-pointer callee, a Constant argument or a static
\* argument/destination place aborts the translation at that call, before any
\* frame is pushed and with no document printed.
C10_UnsupportedFatal ==
    [][(AtCall /\ (CalleeIsFnPtr \/ HasConstantArg \/ HasStaticPlace)) => Aborts]_vars

\* C10 as amended: the same, where a Constant argument is fatal only at a call
\* the translator inlines (callee resolved, not foreign, not skipped, with MIR).
C10_UnsupportedFatalInlined ==
    [][(AtCall /\ (CalleeIsFnPtr \/ (Inlinable /\ HasConstantArg) \/ HasStaticPlace))
          => Aborts]_vars
C10_Witness ==
    /\ status = "panicked"
    /\ Len(call_stack) > 1
    /\ walk[Top].phase = "term"
    /\ CurrentBody.basic_blocks[walk[Top].block].terminator.kind = "Call"
    /\ \E i \in 1..Len(CurrentBody.basic_blocks[walk[Top].block].terminator.args) :
          CurrentBody.basic_blocks[walk[Top].block].terminator.args[i].op = "Constant"

\* The visitor is about to translate a terminator of kind k.
AtKind(k) == Running("term") /\ CallTerm.kind = k
NewTransitions == (Len(pnml_doc.transitions) + 1)..Len(pnml_doc'.transitions)
ArcsOf(net, t) == {a \in net.arcs : (a[1] = "pt" /\ a[3] = t) \/ (a[1] = "tp" /\ a[2] = t)}
\* The walk of the top frame moves on to the block after the current one.
WalkContinues ==
    /\ status' = "running"
    /\ walk' = SetTop(walk, AfterTerminator(CurrentBody, walk[Top].block))

\* C11: a SwitchInt terminator with target set ts adds exactly |ts|
\* transitions, one per target, each with one arc from the cursor place and
\* one arc to the entry place of its target; the walk then goes on.
C11_SwitchStep ==
    LET fn == top_frame(call_stack)
        ts == {CallTerm.targets[i] : i \in 1..Len(CallTerm.targets)}
    IN  (AtKind("SwitchInt") /\ ts \subseteq DOMAIN fn.basic_blocks) =>
            /\ WalkContinues
            /\ Cardinality(NewTransitions) = Cardinality(ts)
            /\ pnml_doc'.places = pnml_doc.places
            /\ \A b \in ts : \E t \in NewTransitions :
                  ArcsOf(pnml_doc', t) = {PT(fn.cursor, t), TP(t, fn.basic_blocks[b])}
C11_SwitchIntTranslation == [][C11_SwitchStep]_vars

\* C12: a Drop(p, B') terminator adds a drop transition from the live place
\* of local(p) to its dead place and a goto transition from the cursor to the
\* entry place of B'; the walk then goes on.
C12_DropStep ==
    LET fn == top_frame(call_stack)
        l == place_to_local(CallTerm.location)
    IN  (AtKind("Drop") /\ get_local_ok(fn, l) /\ goto_ok(fn, CallTerm.target)) =>
            /\ WalkContinues
            /\ \E t1, t2 \in NewTransitions :
                  /\ NewTransitions = {t1, t2}
                  /\ ArcsOf(pnml_doc', t1) =
                         {PT(get_local(fn, l)[1], t1), TP(t1, get_local(fn, l)[2])}
                  /\ ArcsOf(pnml_doc', t2) =
                         {PT(fn.cursor, t2), TP(t2, fn.basic_blocks[CallTerm.target])}
C12_DropTranslation == [][C12_DropStep]_vars

\* Places a token on a place of S can reach by firing one transition.
PostPlaces(net, S) ==
    {a[3] : a \in {x \in net.arcs :
                      x[1] = "tp" /\ \E p \in S : PT(p, x[2]) \in net.arcs}}
RECURSIVE ReachableFrom(_, _)
ReachableFrom(net, S) ==
    IF PostPlaces(net, S) \subseteq S THEN S
    ELSE ReachableFrom(net, S \cup PostPlaces(net, S))

\* C13: once an Assert(_, B') terminator is translated the net holds a
\* transition path from the block's cursor place to the entry place of B'.
C13_AssertStep ==
    LET fn == top_frame(call_stack)
    IN  (AtKind("Assert") /\ goto_ok(fn, CallTerm.target)) =>
            fn.basic_blocks[CallTerm.target]
                \in ReachableFrom(pnml_doc', PostPlaces(pnml_doc', {fn.cursor}))
C13_AssertKeepsControlFlowing == [][C13_AssertStep]_vars

\* C14: every statement, whatever its kind, adds one transition fed by the
\* cursor place and feeding a fresh place that becomes the cursor, and the walk
\* moves on to the next statement or, after the last one, to the terminator.
C14_StatementStep ==
    LET fn == top_frame(call_stack)
        b == walk[Top].block
        i == walk[Top].stmt
        t == Len(pnml_doc.transitions) + 1
        q == Len(pnml_doc.places) + 1
    IN  Running("stmt") =>
            /\ Len(pnml_doc'.transitions) = t
            /\ Len(pnml_doc'.places) = q
            /\ pnml_doc'.arcs = pnml_doc.arcs \cup {PT(fn.cursor, t), TP(t, q)}
            /\ top_frame(call_stack').cursor = q
            /\ status' = "running"
            /\ walk' = SetTop(walk, IF i < Len(CurrentBody.basic_blocks[b].statements)
                                    THEN Position("stmt", b, i + 1)
                                    ELSE Position("term", b, 0))
C14_StatementChain == [][C14_StatementStep]_vars

\* Procedure whose body the k-th nested visit_body activation walks: the entry
\* procedure, then the callee of the Call terminator the activation below is at.
RECURSIVE WalkedDef(_)
WalkedDef(k) ==
    IF k = 1 THEN "main"
    ELSE LET body == prog[WalkedDef(k - 1)]
             func == body.basic_blocks[walk[k - 1].block].terminator.func
         IN  IF func.op = "Constant" THEN func.ty.def
             ELSE body.local_decls[func.place.local + 1].def

C15_StackMatchesWalk ==
    /\ status = "running" =>
          /\ call_stack # <<>>
          /\ Len(call_stack) = Len(walk)
          /\ \A k \in 1..Len(call_stack) :
                /\ call_stack[k].mir_id = WalkedDef(k)
                /\ call_stack[k].mir_body = prog[WalkedDef(k)]
    /\ (status = "done" \/ stdout # <<>>) => call_stack = <<>>
C15_PushPopStep ==
    \/ /\ Len(call_stack') = Len(call_stack) + 1
       /\ SubSeq(call_stack', 1, Len(call_stack)) = call_stack
    \/ /\ Len(call_stack') = Len(call_stack) - 1
       /\ call_stack' = SubSeq(call_stack, 1, Len(call_stack) - 1)
    \/ /\ Len(call_stack') = Len(call_stack)
       /\ \A k \in 1..(Len(call_stack) - 1) : call_stack'[k] = call_stack[k]

\* C15: while the translation runs the call stack is non-empty and its k-th
\* frame is the frame of the body the k-th nested walk is in (so every
\* callback acts on the frame of the body it walks); a step pushes one frame,
\* pops exactly the top frame or changes the top frame only; the stack is
\* empty when the document is printed.
C15_CallStackDiscipline == []C15_StackMatchesWalk /\ [][C15_PushPopStep]_vars
C15_Witness ==
    /\ status = "done"
    /\ stdout # <<>>
    /\ Len(pnml_doc.pages) > EntryPage(pnml_doc) + 1

\* C16: the net-builder calls of a step, and so the places and transitions of
\* the document in their order of creation, are the same whatever iteration
\* order the argument HashMap has: the step taken is the step every hasher
\* seed yields.
C16_SeedIndependentStep ==
    /\ status = "new" =>
          \E new_ok \in BOOLEAN : \A seed \in HashSeeds :
              LET n2 == petrify_start_place(pnml_doc)
                  r == Translate(n2, call_stack, "main", LastPlace(n2), <<>>, NoDestination,
                                 new_ok, seed)
              IN  pnml_doc' = r.net /\ call_stack' = r.stack
    /\ Running("term") =>
          \E new_ok \in BOOLEAN : \A seed \in HashSeeds :
              LET r == MatchTerminatorKind(pnml_doc, call_stack, CallTerm, new_ok, seed)
              IN  pnml_doc' = r.net /\ call_stack' = r.stack
C17_EntryStep ==
    (AtCall /\ Len(call_stack') = Len(call_stack) + 1) =>
        LET caller == top_frame(call_stack)
            callee == top_frame(call_stack')
        IN  /\ callee.start_place = caller.cursor
            /\ callee.basic_blocks[1] = caller.cursor
            /\ callee.cursor = caller.cursor
            /\ pnml_doc'.transitions = pnml_doc.transitions
            /\ pnml_doc'.arcs = pnml_doc.arcs
            /\ Len(pnml_doc'.places) =
                   Len(pnml_doc.places) + Len(callee.mir_body.basic_blocks) - 1
            /\ call_stack'[Len(call_stack)] = caller
C17_ParkedCursor ==
    \A k \in 2..Len(call_stack) :
        /\ call_stack[k].start_place = call_stack[k - 1].cursor
        /\ call_stack[k].basic_blocks[1] = call_stack[k - 1].cursor

\* C17: the start place of an inlined callee is the caller's cursor place at
\* the Call terminator, read from the caller's frame before the push; the
\* callee's entry block is bound to it, and the push adds no transition, no
\* arc and no place other than the entry places of the callee's other blocks.
C17_CalleeEntryIsCallerCursor == []C17_ParkedCursor /\ [][C17_EntryStep]_vars
\* A callee is being walked whose caller had statements before the call.
C17_Witness ==
    /\ Len(call_stack) > 1
    /\ call_stack[1].cursor # call_stack[1].start_place
    /\ walk[Top].phase = "term"

\* C18: CallStack::is_empty returns, with the answer "the stack holds no
\* frame", so an inlined call with a destination gets past the root test of
\* translate(): the step does not end in an exhausted native stack.
C18_IsEmptyStep ==
    (AtCall /\ Inlinable /\ CallWellFormed /\ CallTerm.destination # NoDestination
        /\ Len(call_stack) < MaxDepth) =>
        /\ is_empty(call_stack).terminates
        /\ is_empty(call_stack).value = (call_stack = <<>>)
        /\ status' # "overflow"
C18_IsEmptyTerminates == [][C18_IsEmptyStep]_vars

(***************************************************************************)
(* CallStack<T> on its own: any sequence of push, pop, peek and peek_mut   *)
(* on a stack of small items.                                              *)
(***************************************************************************)
CsItems == {"a", "b", "c"}
CsMaxLen == 4

CsInit ==
    /\ prog = [d \in MirDefs |-> Body(<<IntTy>>, <<ReturnBlock>>)]
    /\ pnml_doc = NewDocument
    /\ call_stack = CallStackNew
    /\ walk = <<>>
    /\ status = "new"
    /\ failed = FALSE
    /\ stdout = <<>>
    /\ marking = <<>>
    /\ entered = {}
    /\ returned = {}
    /\ item = [op |-> "new", value |-> None]

CsFrame == <<prog, pnml_doc, walk, status, failed, stdout, marking, entered, returned>>

Returned(op, value) == [op |-> op, value |-> value]

CsPush ==
    /\ Len(call_stack) < CsMaxLen
    /\ \E x \in CsItems : call_stack' = push(call_stack, x)
    /\ item' = Returned("push", None)
    /\ UNCHANGED CsFrame
CsPop ==
    /\ call_stack' = pop(call_stack).stack
    /\ item' = Returned("pop", pop(call_stack).item)
    /\ UNCHANGED CsFrame
CsPeek ==
    /\ item' = Returned("peek", peek(call_stack))
    /\ UNCHANGED call_stack
    /\ UNCHANGED CsFrame
CsPeekMut ==
    /\ item' = Returned("peek_mut", peek_mut(call_stack))
    /\ UNCHANGED call_stack
    /\ UNCHANGED CsFrame

CsNext == CsPush \/ CsPop \/ CsPeek \/ CsPeekMut
SpecCallStack == CsInit /\ [][CsNext]_vars

\* The most recently pushed item that has not been popped, if any.
MostRecent(stack) == IF stack = <<>> THEN None ELSE Some(stack[Len(stack)])

\* What each operation must do if the stack is last-in first-out.
C19_LifoStep ==
    CASE item'.op = "push" ->
            /\ Len(call_stack') = Len(call_stack) + 1
            /\ SubSeq(call_stack', 1, Len(call_stack)) = call_stack
            /\ MostRecent(call_stack') # None
      [] item'.op = "pop" ->
            /\ item'.value = MostRecent(call_stack)
            /\ call_stack' = SubSeq(call_stack, 1, Len(call_stack) - 1)
      [] item'.op \in {"peek", "peek_mut"} ->
            /\ item'.value = MostRecent(call_stack)
            /\ call_stack' = call_stack
      [] OTHER -> FALSE

\* C19: CallStack is a LIFO stack: peek and peek_mut hand back the most
\* recently pushed item not yet popped and leave the stack as it is, pop
\* removes and hands back that item, and on the empty stack all three hand
\* back None and leave it empty.
C19_CallStackLifo == [][C19_LifoStep]_vars
\* Over a stack of two items a third was pushed and popped again, and the one
\* below it peeked.
C19_Witness ==
    /\ item = Returned("peek", Some("b"))
    /\ call_stack = <<"a", "b">>

====
